---------------------------- MODULE Spec2Model ----------------------------
(***************************************************************************)
(* A model of the dedent library (src/src/dedent).  Python strings are     *)
(* sequences of one-character strings; every library function is an        *)
(* operator computed the way the source computes it, and every public      *)
(* entry point is an action that applies it to inputs drawn by Init.       *)
(***************************************************************************)
EXTENDS Integers, Sequences, FiniteSets, TLC

VARIABLES
    op,              \* the function applied in this run ("none" before the call)
    arg,             \* the type of dedent's argument: "str" or "Template"
    string,          \* the plain-string argument (dedent, dedent_string, strip_string)
    strip,           \* the strip argument: "MISSING", "smart", "all" or "none"
    align,           \* the align argument: "MISSING", "True" or "False"
    value,           \* the value argument of align_value; the text that was
                     \* indented to make the string of a round trip
    preceding_text,  \* the preceding_text argument of align_value; the spaces
                     \* that were put before the lines in a round trip
    template,        \* the items of the Template argument, or of the f-string
                     \* the plain-string argument was written as
    segments,        \* the segments the interpolation's format spec was joined from
    result           \* what the call returned

inputs == <<arg, string, strip, align, value, preceding_text, template, segments>>
vars == <<op, arg, string, strip, align, value, preceding_text, template, segments, result>>

-----------------------------------------------------------------------------
(* Characters.                                                             *)

NL  == "\n"
SP  == " "
TAB == "\t"
NUL == "NUL"     \* the one character \x00

\* The characters for which str.isspace() holds and which the regex class \s
\* matches, among the characters of the model.
Whitespace == {SP, TAB, NL}

\* Bounds of the enumerated inputs: the longest string given to dedent_string,
\* the longest value and the longest preceding text given to align_value.
MaxLen == 5
MaxValueLen == 3
MaxPrecedingLen == 3
\* The longest enumerated string given to dedent, and the most segments of a
\* format spec.
MaxDedentLen == 4
MaxSegments == 3
\* The longest text of a round trip and the most spaces put before its lines.
MaxRoundTripLen == 4
MaxPrepended == 2
\* The most segments of a format spec with a fill character.
MaxFillSegments == 2
\* The longest marker-free string given to dedent with each align argument.
MaxFlagLen == 3
\* The longest string given to strip_string.
MaxStripLen == 5
\* The longest string given to dedent among arguments of other types.
MaxTypedLen == 2
\* The longest text before a wrapper and the longest wrapped value.
MaxContextLen == 2
MaxPayloadLen == 2

\* The characters the enumerated inputs are made of: the two indentation
\* characters, the line separator and one non-whitespace character.
Alphabet == {SP, TAB, NL, "a"}

\* The characters of the values given to align_value.
ValueAlphabet == {SP, NL, "a"}

StrUpTo(chars, n) == UNION {[1..k -> chars] : k \in 0..n}

-----------------------------------------------------------------------------
(* Python's str operations.                                                *)

Min(S) == CHOOSE x \in S : \A y \in S : x <= y

\* s[i:] with 0-based i = n
DropFirst(s, n) == SubSeq(s, n + 1, Len(s))

\* s[:n]
TakeFirst(s, n) == SubSeq(s, 1, IF n < Len(s) THEN n ELSE Len(s))

\* str.isspace(): at least one character, and all of them whitespace
isspace(s) == Len(s) > 0 /\ \A i \in 1..Len(s) : s[i] \in Whitespace

\* s[::-1]
Reverse(s) == [i \in 1..Len(s) |-> s[Len(s) + 1 - i]]

\* str.split(sep) for a one-character sep: always at least one piece
RECURSIVE split(_, _)
split(s, sep) ==
    LET at == {i \in 1..Len(s) : s[i] = sep}
    IN  IF at = {} THEN <<s>>
        ELSE LET i == Min(at)
             IN  <<SubSeq(s, 1, i - 1)>> \o split(DropFirst(s, i), sep)

\* sep.join(parts)
RECURSIVE join(_, _)
join(sep, parts) ==
    IF Len(parts) = 0 THEN <<>>
    ELSE IF Len(parts) = 1 THEN parts[1]
    ELSE parts[1] \o sep \o join(sep, Tail(parts))

\* str.replace(old, new) for a one-character old: the pieces between the
\* occurrences of old, with new between them
replace(s, old, new) == join(new, split(s, old))

\* str.rfind(ch) for a one-character ch, as a 0-based index, -1 when absent
rfind(s, ch) ==
    LET at == {i \in 1..Len(s) : s[i] = ch}
    IN  IF at = {} THEN -1 ELSE (CHOOSE i \in at : \A j \in at : j <= i) - 1

\* The length of the longest prefix of s made of characters of class.
PrefixRun(s, class) ==
    LET stop == {i \in 1..Len(s) : s[i] \notin class}
    IN  IF stop = {} THEN Len(s) ELSE Min(stop) - 1

\* A slip: str.lstrip()
LeftStripOnly(s) == DropFirst(s, PrefixRun(s, Whitespace))

\* str.strip()
pystrip(s) ==
    LET lead  == PrefixRun(s, Whitespace)
        rest  == DropFirst(s, lead)
        trail == PrefixRun(Reverse(rest), Whitespace)
    IN  SubSeq(rest, 1, Len(rest) - trail)

-----------------------------------------------------------------------------
(* _core.py                                                                *)

\* Optional[str]: what a regex match's group(1) or None is
None == [some |-> FALSE, group |-> <<>>]
Some(g) == [some |-> TRUE, group |-> g]

\* _safe_match_first_group, for the two patterns it is called with:
\* _INDENTED, ^(\s+), and _INDENTED_WITH_CONTENT, ^(\s+)\S+
safe_match_first_group(pattern, s) ==
    LET n == PrefixRun(s, Whitespace)
    IN  CASE pattern = "_INDENTED" ->
                IF n >= 1 THEN Some(SubSeq(s, 1, n)) ELSE None
          [] pattern = "_INDENTED_WITH_CONTENT" ->
                IF n >= 1 /\ n < Len(s) THEN Some(SubSeq(s, 1, n)) ELSE None

\* A slip: the indent is looked for at the start of the whole preceding text.
WholeTextAsCurrentLine(p) == p

\* preceding_text[preceding_text.rfind("\n") + 1 :]
current_line(p) == DropFirst(p, rfind(p, NL) + 1)

align_value(v, p) ==
    LET indent == safe_match_first_group("_INDENTED", current_line(p))
    IN  IF indent.some /\ Len(indent.group) > 0
        THEN replace(v, NL, <<NL>> \o indent.group)
        ELSE v

\* A slip: the pattern is ^[^\S\n]*\n*, which takes every newline that follows.
StripsEveryNewline(s) ==
    LET run == PrefixRun(s, Whitespace \ {NL})
    IN  DropFirst(s, run + PrefixRun(DropFirst(s, run), {NL}))

\* _SMART_STRIP.sub("", s, count=1), the pattern being ^[^\S\n]*\n?
smart_strip_sub(s) ==
    LET run  == PrefixRun(s, Whitespace \ {NL})
        rest == DropFirst(s, run)
    IN  IF Len(rest) > 0 /\ rest[1] = NL THEN Tail(rest) ELSE rest

\* A slip: the mode none strips as smart does.
NoneStripsAsSmart(s, mode) ==
    CASE mode = "all" -> pystrip(s)
      [] OTHER        -> Reverse(smart_strip_sub(Reverse(smart_strip_sub(s))))

strip_string(s, mode) ==
    CASE mode = "smart" -> Reverse(smart_strip_sub(Reverse(smart_strip_sub(s))))
      [] mode = "all"   -> pystrip(s)
      [] mode = "none"  -> s

\* A slip: every line with a non-whitespace character takes part in the
\* minimum, also a line with no indentation.
AllLinesQualify(lines, acc) ==
    LET content == {j \in 1..Len(lines) : PrefixRun(lines[j], Whitespace) < Len(lines[j])}
        lens    == {PrefixRun(lines[j], Whitespace) : j \in content}
    IN  IF lens = {} THEN acc ELSE Min(lens \cup {acc})

\* The reduce of dedent_string: min(acc, len(indent)) for every line that
\* _INDENTED_WITH_CONTENT matches, starting from acc.
RECURSIVE reduce_min_indent_rec(_, _)
reduce_min_indent_rec(lines, acc) ==
    IF Len(lines) = 0 THEN acc
    ELSE LET indent == safe_match_first_group("_INDENTED_WITH_CONTENT", lines[1])
             next   == IF indent.some /\ Len(indent.group) > 0
                       THEN (IF Len(indent.group) < acc THEN Len(indent.group) ELSE acc)
                       ELSE acc
         IN  reduce_min_indent_rec(Tail(lines), next)

\* A slip: the largest indent is taken, not the smallest.
MaxIndentInsteadOfMin(lines, acc) ==
    LET lens == {PrefixRun(lines[j], Whitespace) :
                    j \in {k \in 1..Len(lines) :
                              /\ PrefixRun(lines[k], Whitespace) >= 1
                              /\ PrefixRun(lines[k], Whitespace) < Len(lines[k])}}
    IN  IF lens = {} THEN acc ELSE CHOOSE x \in lens : \A y \in lens : y <= x

reduce_min_indent(lines, acc) == reduce_min_indent_rec(lines, acc)

\* A slip: the first min_indent characters go, whatever they are.
CutsWithoutLooking(line, min_indent) ==
    SubSeq(line, min_indent + 1, Len(line))

\* A slip: the length guard is left out.
LengthNoGuard(line, min_indent) ==
    IF isspace(TakeFirst(line, min_indent)) THEN DropFirst(line, min_indent) ELSE line

\* line[min_indent:] if len(line) >= min_indent and line[:min_indent].isspace() else line
dedent_line(line, min_indent) ==
    IF Len(line) >= min_indent /\ isspace(TakeFirst(line, min_indent))
    THEN DropFirst(line, min_indent)
    ELSE line

\* A slip: the return of the string with no indented line is left out.
EarlyReturnLeftOut(s) ==
    LET lines      == split(s, NL)
        min_indent == reduce_min_indent(lines, Len(s))
    IN  join(<<NL>>, [i \in 1..Len(lines) |-> dedent_line(lines[i], min_indent)])

\* A slip: the minimum is computed and the string returned as it came.
ReductionDiscarded(s) == s

dedent_string(s) ==
    LET lines      == split(s, NL)
        max_indent == Len(s)
        min_indent == reduce_min_indent(lines, max_indent)
    IN  IF min_indent = max_indent THEN s
        ELSE join(<<NL>>, [i \in 1..Len(lines) |-> dedent_line(lines[i], min_indent)])

-----------------------------------------------------------------------------
(* _dedent.py: its own copies of the three functions                       *)

_safe_match_first_group(pattern, s) ==
    LET n == PrefixRun(s, Whitespace)
    IN  CASE pattern = "_INDENTED" ->
                IF n >= 1 THEN Some(SubSeq(s, 1, n)) ELSE None
          [] pattern = "_INDENTED_WITH_CONTENT" ->
                IF n >= 1 /\ n < Len(s) THEN Some(SubSeq(s, 1, n)) ELSE None

_align_value(v, p) ==
    LET line   == DropFirst(p, rfind(p, NL) + 1)
        indent == _safe_match_first_group("_INDENTED", line)
    IN  IF indent.some /\ Len(indent.group) > 0
        THEN replace(v, NL, <<NL>> \o indent.group)
        ELSE v

_smart_strip_sub(s) ==
    LET run  == PrefixRun(s, Whitespace \ {NL})
        rest == DropFirst(s, run)
    IN  IF Len(rest) > 0 /\ rest[1] = NL THEN Tail(rest) ELSE rest

\* A slip: smart strips the first line and leaves the last.
SmartStripsFirstLineOnly(s, mode) ==
    CASE mode = "smart" -> _smart_strip_sub(s)
      [] mode = "all"   -> pystrip(s)
      [] mode = "none"  -> s

_strip_string(s, mode) ==
    CASE mode = "smart" -> Reverse(_smart_strip_sub(Reverse(_smart_strip_sub(s))))
      [] mode = "all"   -> pystrip(s)
      [] mode = "none"  -> s

RECURSIVE _reduce_min_indent_rec(_, _)
_reduce_min_indent_rec(lines, acc) ==
    IF Len(lines) = 0 THEN acc
    ELSE LET indent == _safe_match_first_group("_INDENTED_WITH_CONTENT", lines[1])
             next   == IF indent.some /\ Len(indent.group) > 0
                       THEN (IF Len(indent.group) < acc THEN Len(indent.group) ELSE acc)
                       ELSE acc
         IN  _reduce_min_indent_rec(Tail(lines), next)

\* A slip: the pattern is ^(\s*)\S+, which a line with no indentation matches.
UnindentedLineMatches(lines, acc) ==
    LET lens == {PrefixRun(lines[j], Whitespace) :
                    j \in {k \in 1..Len(lines) : PrefixRun(lines[k], Whitespace) < Len(lines[k])}}
    IN  IF lens = {} THEN acc ELSE Min(lens \cup {acc})

_reduce_min_indent(lines, acc) == _reduce_min_indent_rec(lines, acc)

\* A slip: the prefix is cut without a look at what it holds.
CutWithoutWhitespaceCheck(line, min_indent) ==
    IF Len(line) >= min_indent THEN DropFirst(line, min_indent) ELSE line

_dedent_line(line, min_indent) ==
    IF Len(line) >= min_indent /\ isspace(TakeFirst(line, min_indent))
    THEN DropFirst(line, min_indent)
    ELSE line

_dedent_string(s) ==
    LET lines      == split(s, NL)
        max_indent == Len(s)
        min_indent == _reduce_min_indent(lines, max_indent)
    IN  IF min_indent = max_indent THEN s
        ELSE join(<<NL>>, [i \in 1..Len(lines) |-> _dedent_line(lines[i], min_indent)])

-----------------------------------------------------------------------------
(* Values and the builtins str, repr and format.                           *)

\* A Python object given to align() or interpolated: a str, or an Aligned
\* wrapper of either module around another object.
StrValue(s) == [type |-> "str", s |-> s]
AlignedValue(cls, v, id) == [type |-> "Aligned", cls |-> cls, _value |-> v, _ID |-> id]

\* What a builtin returns: a str, or the exception it raised.
Ok(s) == [ok |-> TRUE, text |-> s, error |-> "none"]
Raise(e) == [ok |-> FALSE, text |-> <<>>, error |-> e]

\* An object of another type, whose formatter takes any spec:
\* datetime.date(2000, 1, 1).  Its __format__ is strftime, which copies what
\* is no % directive; no spec of the model holds a %.
DateValue == [type |-> "date"]
date_str == <<"2", "0", "0", "0", "-", "0", "1", "-", "0", "1">>
date_repr ==
    <<"d", "a", "t", "e", "t", "i", "m", "e", ".", "d", "a", "t", "e", "(">>
    \o <<"2", "0", "0", "0", ",", SP, "1", ",", SP, "1", ")">>
date_format(spec) == IF Len(spec) = 0 THEN Ok(date_str) ELSE Ok(spec)

Digits == <<"0", "1", "2", "3", "4", "5", "6", "7", "8", "9">>
DigitChars == {Digits[i] : i \in 1..10}
DigitValue(c) == (CHOOSE i \in 1..10 : Digits[i] = c) - 1

RECURSIVE ParseInt(_, _)
ParseInt(s, acc) ==
    IF Len(s) = 0 THEN acc ELSE ParseInt(Tail(s), 10 * acc + DigitValue(s[1]))

\* n copies of the character c
Pad(c, n) == [i \in 1..(IF n > 0 THEN n ELSE 0) |-> c]

\* str.__format__(s, spec) for the format mini-language
\* [[fill]align][0][width][.precision][s]; every other spec is invalid for a str.
str_format(s, spec) ==
    LET aligns   == {"<", ">", "^", "="}
        hasFill  == Len(spec) >= 2 /\ spec[2] \in aligns
        hasAlign == hasFill \/ (Len(spec) >= 1 /\ spec[1] \in aligns)
        how      == IF hasFill THEN spec[2] ELSE IF hasAlign THEN spec[1] ELSE "<"
        rest1    == DropFirst(spec, IF hasFill THEN 2 ELSE IF hasAlign THEN 1 ELSE 0)
        wlen     == PrefixRun(rest1, DigitChars)
        zero     == wlen > 0 /\ rest1[1] = "0"
        fill     == IF hasFill THEN spec[1] ELSE IF zero THEN "0" ELSE SP
        width    == ParseInt(SubSeq(rest1, 1, wlen), 0)
        rest2    == DropFirst(rest1, wlen)
        hasPrec  == Len(rest2) >= 2 /\ rest2[1] = "." /\ rest2[2] \in DigitChars
        plen     == IF hasPrec THEN PrefixRun(Tail(rest2), DigitChars) ELSE 0
        prec     == ParseInt(SubSeq(rest2, 2, 1 + plen), 0)
        rest3    == DropFirst(rest2, IF hasPrec THEN 1 + plen ELSE 0)
        body     == IF hasPrec THEN TakeFirst(s, prec) ELSE s
        room     == width - Len(body)
        left     == IF how = ">" THEN room ELSE IF how = "^" THEN room \div 2 ELSE 0
    IN  IF rest3 \notin {<<>>, <<"s">>} \/ how = "="
        THEN Raise("ValueError")
        ELSE IF room <= 0 THEN Ok(body)
        ELSE Ok(Pad(fill, left) \o body \o Pad(fill, room - left))

\* repr() of a str with neither quote character in it
RECURSIVE str_repr_body(_)
str_repr_body(s) ==
    IF Len(s) = 0 THEN <<>>
    ELSE (CASE s[1] = NL   -> <<"\\", "n">>
            [] s[1] = TAB  -> <<"\\", "t">>
            [] s[1] = "\\" -> <<"\\", "\\">>
            [] s[1] = NUL  -> <<"\\", "x", "0", "0">>
            [] OTHER       -> <<s[1]>>) \o str_repr_body(Tail(s))

str_repr(s) == <<"'">> \o str_repr_body(s) \o <<"'">>

-----------------------------------------------------------------------------
(* _aligned.py and the marker half of _dedent.py                           *)

IdLen == 32
Hex == DigitChars \cup {"a", "b", "c", "d", "e", "f"}

DEDENT_ALIGN == <<"D", "E", "D", "E", "N", "T", "_", "A", "L", "I", "G", "N">>

\* _aligned.py
_SEP == NUL
_START_PREFIX == <<NUL>> \o DEDENT_ALIGN \o <<"_", "S", "T", "A", "R", "T", ":">>
_END_PREFIX == <<NUL>> \o DEDENT_ALIGN \o <<"_", "E", "N", "D", ":">>

\* _dedent.py
_ALIGN_MARKER_PREFIX == DEDENT_ALIGN
_dedent_marker_prefix == <<_SEP>> \o _ALIGN_MARKER_PREFIX \o <<":">>

\* Aligned._wrap of either class
_wrap(self, text) ==
    IF self.cls = "_aligned"
    THEN LET start == _START_PREFIX \o self._ID \o <<_SEP>>
             end   == _END_PREFIX \o self._ID \o <<_SEP>>
         IN  start \o text \o end
    ELSE LET marker == _dedent_marker_prefix \o self._ID \o <<_SEP>>
         IN  marker \o text \o marker

\* str(), repr() and format() of an object
RECURSIVE py_str(_)
py_str(v) ==
    CASE v.type = "str"  -> v.s
      [] v.type = "date" -> date_str
      [] OTHER           -> _wrap(v, py_str(v._value))

RECURSIVE py_repr(_)
py_repr(v) ==
    CASE v.type = "str"  -> str_repr(v.s)
      [] v.type = "date" -> date_repr
      [] OTHER           -> _wrap(v, py_repr(v._value))

RECURSIVE py_format(_, _)
py_format(v, spec) ==
    CASE v.type = "str"  -> str_format(v.s, spec)
      [] v.type = "date" -> date_format(spec)
      [] OTHER           -> LET inner == py_format(v._value, spec)
                            IN  IF inner.ok THEN Ok(_wrap(v, inner.text)) ELSE inner

\* Whether pat occurs in s at the 1-based position p
HasAt(s, p, pat) ==
    /\ p + Len(pat) - 1 <= Len(s)
    /\ \A i \in 1..Len(pat) : s[p + i - 1] = pat[i]

NoMatch == [found |-> FALSE, start |-> 0, end |-> 0, group2 |-> <<>>]

\* A match of start_prefix([a-f0-9]{32})SEP(.*?)end_prefix\1SEP (re.DOTALL)
\* that begins at the 1-based position p; start and end are 0-based as
\* match.start() and match.end() are.
marker_match_at(s, p, start_prefix, end_prefix) ==
    LET idAt  == p + Len(start_prefix)
        sepAt == idAt + IdLen
    IN  IF /\ HasAt(s, p, start_prefix)
           /\ sepAt <= Len(s)
           /\ \A i \in idAt..(sepAt - 1) : s[i] \in Hex
           /\ s[sepAt] = _SEP
        THEN LET closing == end_prefix \o SubSeq(s, idAt, sepAt - 1) \o <<_SEP>>
                 ends    == {q \in (sepAt + 1)..Len(s) : HasAt(s, q, closing)}
             IN  IF ends = {} THEN NoMatch
                 ELSE [found  |-> TRUE,
                       start  |-> p - 1,
                       end    |-> Min(ends) + Len(closing) - 1,
                       group2 |-> SubSeq(s, sepAt + 1, Min(ends) - 1)]
        ELSE NoMatch

\* The next match of finditer at or after the 0-based position pos
marker_search(s, pos, start_prefix, end_prefix) ==
    LET at == {p \in (pos + 1)..Len(s) :
                  s[p] = start_prefix[1] /\ marker_match_at(s, p, start_prefix, end_prefix).found}
    IN  IF at = {} THEN NoMatch ELSE marker_match_at(s, Min(at), start_prefix, end_prefix)

\* _aligned.process_align_markers: the loop over the matches, from last_end
\* with result_parts joined so far
RECURSIVE aligned_scan(_, _, _)
aligned_scan(s, last_end, result_parts) ==
    LET match == marker_search(s, last_end, _START_PREFIX, _END_PREFIX)
    IN  IF ~match.found
        THEN (IF last_end = 0 THEN s ELSE result_parts \o DropFirst(s, last_end))
        ELSE LET preceding == result_parts \o SubSeq(s, last_end + 1, match.start)
                 aligned_v == align_value(match.group2, preceding)
             IN  aligned_scan(s, match.end, preceding \o aligned_v)

aligned_process_align_markers(s) == aligned_scan(s, 0, <<>>)

\* _dedent.process_align_markers: the same loop, with the payload of each
\* match scanned before it is aligned
RECURSIVE dedent_scan(_, _, _)
dedent_scan(s, last_end, result_parts) ==
    LET match == marker_search(s, last_end, _dedent_marker_prefix, _dedent_marker_prefix)
    IN  IF ~match.found
        THEN (IF last_end = 0 THEN s ELSE result_parts \o DropFirst(s, last_end))
        ELSE LET preceding == result_parts \o SubSeq(s, last_end + 1, match.start)
                 inner     == dedent_scan(match.group2, 0, <<>>)
                 aligned_v == _align_value(inner, preceding)
             IN  dedent_scan(s, match.end, preceding \o aligned_v)

dedent_process_align_markers(s) == dedent_scan(s, 0, <<>>)

-----------------------------------------------------------------------------
(* Templates and f-strings.                                                *)

\* The items of a Template, and the fields of an f-string: literal text and
\* interpolations (value, conversion "None", "s" or "r", format spec).
Literal(s) == [kind |-> "str", s |-> s]
Interpolation(v, conversion, format_spec) ==
    [kind |-> "Interpolation", value |-> v, conversion |-> conversion,
     format_spec |-> format_spec]

\* string.templatelib.convert
convert(v, conversion) ==
    CASE conversion = "None" -> v
      [] conversion = "s"    -> StrValue(py_str(v))
      [] conversion = "r"    -> StrValue(py_repr(v))

\* What the interpreter makes of an f-string: every field is converted and
\* then formatted with its spec, the empty one included.
RECURSIVE f_string(_)
f_string(items) ==
    IF Len(items) = 0 THEN Ok(<<>>)
    ELSE LET head == IF items[1].kind = "str" THEN Ok(items[1].s)
                     ELSE py_format(convert(items[1].value, items[1].conversion),
                                    items[1].format_spec)
             rest == f_string(Tail(items))
         IN  IF ~head.ok THEN head
             ELSE IF ~rest.ok THEN rest
             ELSE Ok(head.text \o rest.text)

-----------------------------------------------------------------------------
(* _dedent.py: the template path                                           *)

\* AlignSpec
ALIGN == <<"a", "l", "i", "g", "n">>
NOALIGN == <<"n", "o", "a", "l", "i", "g", "n">>
AlignSpec == {ALIGN, NOALIGN}

\* filter(pred, it) and filterfalse(pred, it) of _partition, pred being
\* membership in AlignSpec
IsAlignSpec(seg) == seg \in AlignSpec

\* A misspelled directive
ALGN == <<"a", "l", "g", "n">>

\* A slip: a segment that resembles a directive is taken out of the spec too.
DropsMisspelled(seg) == seg \notin AlignSpec \cup {ALGN}

NotAlignSpec(seg) == seg \notin AlignSpec

\* A slip: the first directive decides, not the last.
FirstDirective(dedent_specs) ==
    IF Len(dedent_specs) = 0 THEN "None"
    ELSE IF dedent_specs[1] = ALIGN THEN "True" ELSE "False"

\* *_, dedent_spec = list(dedent_specs) or [None], and the override it gives
align_override_of(dedent_specs) ==
    IF Len(dedent_specs) = 0 THEN "None"
    ELSE IF dedent_specs[Len(dedent_specs)] = ALIGN THEN "True" ELSE "False"

_parse_format_spec(format_spec) ==
    LET specs        == split(format_spec, ":")
        dedent_specs == SelectSeq(specs, IsAlignSpec)
        other_specs  == SelectSeq(specs, NotAlignSpec)
    IN  [format_spec    |-> join(<<":">>, other_specs),
         align_override |-> align_override_of(dedent_specs)]

\* A slip: the call's flag wins over the directive.
FlagOverDirective(align_override, flag) == flag

\* align_override if align_override is not None else align
should_align(align_override, flag) ==
    IF align_override # "None" THEN align_override = "True" ELSE flag

\* A slip: the value is aligned before it is formatted.
AlignBeforeFormat(item, p, flag) ==
    LET converted == convert(item.value, item.conversion)
        parsed    == IF Len(item.format_spec) > 0
                     THEN _parse_format_spec(item.format_spec)
                     ELSE [format_spec |-> <<>>, align_override |-> "None"]
        aligning  == should_align(parsed.align_override, flag)
        text      == IF aligning THEN _align_value(py_str(converted), p)
                     ELSE py_str(converted)
        formatted == IF Len(parsed.format_spec) > 0
                     THEN py_format(StrValue(text), parsed.format_spec)
                     ELSE Ok(text)
    IN  IF ~formatted.ok THEN [ok |-> FALSE, text |-> <<>>, error |-> formatted.error,
                               aligned |-> FALSE]
        ELSE [ok |-> TRUE, text |-> formatted.text, error |-> "none",
              aligned |-> aligning]

\* _handle_item for an Interpolation: the text, whether it was given to
\* _align_value, and the exception if format raised one
handle_interpolation(item, p, flag) ==
    LET converted == convert(item.value, item.conversion)
        parsed    == IF Len(item.format_spec) > 0
                     THEN _parse_format_spec(item.format_spec)
                     ELSE [format_spec |-> <<>>, align_override |-> "None"]
        formatted == IF Len(parsed.format_spec) > 0
                     THEN py_format(converted, parsed.format_spec)
                     ELSE Ok(py_str(converted))
        aligning  == should_align(parsed.align_override, flag)
    IN  IF ~formatted.ok THEN [ok |-> FALSE, text |-> <<>>, error |-> formatted.error,
                               aligned |-> FALSE]
        ELSE [ok      |-> TRUE,
              text    |-> IF aligning THEN _align_value(formatted.text, p) ELSE formatted.text,
              error   |-> "none",
              aligned |-> aligning]

_handle_item(item, p, flag) ==
    IF item.kind = "str"
    THEN [ok |-> TRUE, text |-> item.s, error |-> "none", aligned |-> FALSE]
    ELSE handle_interpolation(item, p, flag)

\* reduce(lambda acc, item: acc + _handle_item(item, preceding_text=acc, align=align),
\*        template, initial="")
RECURSIVE render_template(_, _, _)
render_template(items, acc, flag) ==
    IF Len(items) = 0 THEN Ok(acc)
    ELSE LET piece == _handle_item(items[1], acc, flag)
         IN  IF ~piece.ok THEN Raise(piece.error)
             ELSE render_template(Tail(items), acc \o piece.text, flag)

\* DEFAULT_ALIGN and DEFAULT_STRIP
align_or_default(a) == IF a = "MISSING" THEN FALSE ELSE a = "True"

\* A slip: without a strip argument nothing is stripped.
DefaultStripNone(m) == IF m = "MISSING" THEN "none" ELSE m

strip_or_default(m) == IF m = "MISSING" THEN "smart" ELSE m

\* _dedent.dedent (Python 3.14 and later) on a str and on a Template
dedent_pipeline(formatted_string, m) ==
    _strip_string(_dedent_string(dedent_process_align_markers(formatted_string)), m)

\* A slip: with align=True a str is aligned as the values of a Template are.
FlagAlignsString(s, a, m) ==
    Ok(dedent_pipeline(IF align_or_default(a) THEN _align_value(s, s) ELSE s,
                       strip_or_default(m)))

dedent_dedent_str(s, a, m) == Ok(dedent_pipeline(s, strip_or_default(m)))

dedent_dedent_template(items, a, m) ==
    LET rendered == render_template(items, <<>>, align_or_default(a))
    IN  IF ~rendered.ok THEN rendered
        ELSE Ok(dedent_pipeline(rendered.text, strip_or_default(m)))

-----------------------------------------------------------------------------
(* _compat.py                                                              *)

\* A slip: the boundaries are stripped before the indentation is reduced.
StripBeforeReduce(s, a, m) ==
    LET mode == IF m = "MISSING" THEN "smart" ELSE m
    IN  Ok(dedent_string(strip_string(aligned_process_align_markers(s), mode)))

compat_dedent(s, a, m) ==
    LET mode == IF m = "MISSING" THEN "smart" ELSE m
    IN  Ok(strip_string(dedent_string(aligned_process_align_markers(s)), mode))

-----------------------------------------------------------------------------
(* The calls.  Init draws the arguments; each action is one call of one    *)
(* function on them and records what it returned.                          *)

NoResult == [kind |-> "none", text |-> <<>>]
Returned(s) == [kind |-> "str", text |-> s]
Raised(e) == [kind |-> "raise", text |-> <<>>, error |-> e]
FromOutcome(o) == IF o.ok THEN Returned(o.text) ELSE Raised(o.error)

\* A TypeError with its message, the pieces of the f-string it was made of.
RaisedTypeError(message) ==
    [kind |-> "raise", text |-> <<>>, error |-> "TypeError", message |-> message]

\* {type(x).__qualname__!r}, the type given by its name
QualnameRepr(type) == <<"'", type, "'">>

\* A slip: the markers are scanned before the type is looked at, and it is
\* the regex that raises.
ScanBeforeTypeCheck(type, s, a, m) ==
    IF type # "str"
    THEN RaisedTypeError(<<"expected string or bytes-like object, got ">>
                         \o QualnameRepr(type))
    ELSE FromOutcome(compat_dedent(s, a, m))

\* _compat.dedent on an argument of any type
compat_dedent_of(type, s, a, m) ==
    IF type # "str"
    THEN RaisedTypeError(<<"expected str, not ">> \o QualnameRepr(type))
    ELSE FromOutcome(compat_dedent(s, a, m))

\* _dedent.dedent (Python 3.14 and later) on an argument of any type
dedent_dedent_of(type, s, items, a, m) ==
    CASE type = "str"      -> FromOutcome(dedent_dedent_str(s, a, m))
      [] type = "Template" -> FromOutcome(dedent_dedent_template(items, a, m))
      [] OTHER             ->
            RaisedTypeError(<<"expected str or Template, not ">> \o QualnameRepr(type))

StripArgs == {"MISSING", "smart", "all", "none"}
AlignArgs == {"MISSING", "True", "False"}

NoTemplate == <<>>
NoSegments == <<>>

\* ---- dedent_string and _dedent_string on every string of the alphabet

InitReduce ==
    /\ op = "none"
    /\ arg = "str"
    /\ string \in StrUpTo(Alphabet, MaxLen)
    /\ strip = "MISSING"
    /\ align = "MISSING"
    /\ value = <<>>
    /\ preceding_text = <<>>
    /\ template = NoTemplate
    /\ segments = NoSegments
    /\ result = NoResult

CoreDedentString ==
    /\ op = "none"
    /\ op' = "dedent_string"
    /\ result' = Returned(dedent_string(string))
    /\ UNCHANGED inputs

DedentDedentString ==
    /\ op = "none"
    /\ op' = "_dedent_string"
    /\ result' = Returned(_dedent_string(string))
    /\ UNCHANGED inputs

NextReduce == CoreDedentString \/ DedentDedentString

SpecReduce == InitReduce /\ [][NextReduce]_vars

\* ---- align_value and _align_value on every pair of bounded strings

InitAlign ==
    /\ op = "none"
    /\ arg = "str"
    /\ string = <<>>
    /\ strip = "MISSING"
    /\ align = "MISSING"
    /\ value \in StrUpTo(ValueAlphabet, MaxValueLen)
    /\ preceding_text \in StrUpTo(Alphabet, MaxPrecedingLen)
    /\ template = NoTemplate
    /\ segments = NoSegments
    /\ result = NoResult

CoreAlignValue ==
    /\ op = "none"
    /\ op' = "align_value"
    /\ result' = Returned(align_value(value, preceding_text))
    /\ UNCHANGED inputs

DedentAlignValue ==
    /\ op = "none"
    /\ op' = "_align_value"
    /\ result' = Returned(_align_value(value, preceding_text))
    /\ UNCHANGED inputs

NextAlign == CoreAlignValue \/ DedentAlignValue

SpecAlign == InitAlign /\ [][NextAlign]_vars

\* ---- dedent on plain strings without markers

\* "\n    first\n        second\n    "
ScenarioA ==
    <<NL, SP, SP, SP, SP, "f", "i", "r", "s", "t", NL,
      SP, SP, SP, SP, SP, SP, SP, SP, "s", "e", "c", "o", "n", "d", NL,
      SP, SP, SP, SP>>

InitDedent ==
    /\ op = "none"
    /\ arg = "str"
    /\ string \in StrUpTo(Alphabet, MaxDedentLen) \cup {ScenarioA}
    /\ strip \in StripArgs
    /\ align \in AlignArgs
    /\ value = <<>>
    /\ preceding_text = <<>>
    /\ template = NoTemplate
    /\ segments = NoSegments
    /\ result = NoResult

\* _compat.dedent(string, align=align, strip=strip); there is no Template
\* before Python 3.14
CompatDedent ==
    /\ op = "none"
    /\ arg # "Template"
    /\ op' = "_compat.dedent"
    /\ result' = compat_dedent_of(arg, string, align, strip)
    /\ UNCHANGED inputs

\* _dedent.dedent(string, align=align, strip=strip), string no Template
DedentDedent ==
    /\ op = "none"
    /\ arg # "Template"
    /\ op' = "_dedent.dedent"
    /\ result' = dedent_dedent_of(arg, string, template, align, strip)
    /\ UNCHANGED inputs

NextDedent == CompatDedent \/ DedentDedent

SpecDedent == InitDedent /\ [][NextDedent]_vars

\* ---- dedent on a Template of a literal, one interpolation and a literal

\* "List:\n    " and "\n---\n", the literals of scenarios B and C
ListHead == <<"L", "i", "s", "t", ":", NL, SP, SP, SP, SP>>
ListTail == <<NL, "-", "-", "-", NL>>
\* "- a\n- b"
ListItems == <<"-", SP, "a", NL, "-", SP, "b">>

\* The literals before and after the interpolation.
TemplateLiterals ==
    {<<ListHead, ListTail>>,
     <<<<>>, <<>>>>,
     <<<<SP, SP>>, <<NL>>>>,
     <<<<SP, "a", NL, TAB, SP>>, <<NL, SP, "a">>>>,
     <<<<"a", NL>>, <<"a">>>>}

TemplateValues ==
    {ListItems, <<>>, <<"a">>, <<"a", NL, "a">>, <<NL>>, <<"a", NL>>}

\* The literals and values that specs of several segments are tried with.
DirectiveLiterals == {<<<<SP, "a", NL, TAB, SP>>, <<NL, SP, "a">>>>, <<<<"a", NL>>, <<"a">>>>}
DirectiveValues == {<<"a", NL, "a">>, <<"a">>}

\* The segments a format spec is made of: the two directives, a misspelled
\* one, a str format spec and the empty segment.
SpecSegments == {ALIGN, NOALIGN, <<"a", "l", "g", "n">>, <<">", "4">>, <<>>}

SegmentLists == UNION {[1..k -> SpecSegments] : k \in 1..MaxSegments}

InitTemplate ==
    /\ op = "none"
    /\ arg = "Template"
    /\ string = <<>>
    /\ strip = "MISSING"
    /\ align \in AlignArgs
    /\ value = <<>>
    /\ preceding_text = <<>>
    /\ segments \in SegmentLists
    /\ \E lits \in TemplateLiterals, v \in TemplateValues, c \in {"None", "r"} :
          /\ \/ Len(segments) = 1
             \/ /\ lits \in DirectiveLiterals
                /\ v \in DirectiveValues
                /\ c = "None"
          /\ template = <<Literal(lits[1]),
                          Interpolation(StrValue(v), c, join(<<":">>, segments)),
                          Literal(lits[2])>>
    /\ result = NoResult

\* _dedent.dedent(template, align=align, strip=strip)
DedentTemplate ==
    /\ op = "none"
    /\ arg = "Template"
    /\ op' = "_dedent.dedent"
    /\ result' = FromOutcome(dedent_dedent_template(template, align, strip))
    /\ UNCHANGED inputs

\* _parse_format_spec(item.format_spec) for the interpolation of the template
ParseFormatSpec ==
    /\ op = "none"
    /\ arg = "Template"
    /\ op' = "_parse_format_spec"
    /\ LET parsed == _parse_format_spec(template[2].format_spec)
       IN  result' = [kind |-> "tuple", text |-> parsed.format_spec,
                      align_override |-> parsed.align_override]
    /\ UNCHANGED inputs

\* _handle_item(item, preceding_text=acc, align=align) for the interpolation
\* of the template, acc being the literal before it
HandleItem ==
    /\ op = "none"
    /\ arg = "Template"
    /\ op' = "_handle_item"
    /\ LET piece == _handle_item(template[2], template[1].s, align_or_default(align))
       IN  result' = IF piece.ok
                     THEN [kind |-> "str", text |-> piece.text, aligned |-> piece.aligned]
                     ELSE Raised(piece.error)
    /\ UNCHANGED inputs

NextTemplate == DedentTemplate \/ ParseFormatSpec \/ HandleItem

SpecTemplate == InitTemplate /\ [][NextTemplate]_vars

\* ---- the marker path: dedent and process_align_markers on the f-strings
\* ---- that render align() wrappers

\* uuid4().hex: 32 hexadecimal digits, the 13th being the version 4
UuidHex(c) == [i \in 1..IdLen |-> IF i = 13 THEN "4" ELSE IF i = 17 THEN "8" ELSE c]
IdA == UuidHex("a")
IdB == UuidHex("b")

MarkerContexts == StrUpTo({SP, NL, "a"}, MaxContextLen)
MarkerPayloads == StrUpTo({NL, "a"}, MaxPayloadLen)

\* f"{w}", f"{w!s}", f"{w!r}" and f"{w:>3}"
Renderings == {<<"None", <<>>>>, <<"s", <<>>>>, <<"r", <<>>>>, <<"None", <<">", "3">>>>}

\* f"{c}{align(v)}a": one wrapper
OneWrapper(cls, c, v, r) ==
    <<Literal(c), Interpolation(AlignedValue(cls, StrValue(v), IdA), r[1], r[2]),
      Literal(<<"a">>)>>

\* f"{c}{align(v)}\n {align('a\na')}": two wrappers, one after the other
TwoWrappers(cls, c, v) ==
    <<Literal(c), Interpolation(AlignedValue(cls, StrValue(v), IdA), "None", <<>>),
      Literal(<<NL, SP>>),
      Interpolation(AlignedValue(cls, StrValue(<<"a", NL, "a">>), IdB), "None", <<>>)>>

\* f"{c}{align(f'{pre}{align(v)}')}a": a wrapper inside the value of another
InnerText(cls, pre, v) ==
    f_string(<<Literal(pre),
               Interpolation(AlignedValue(cls, StrValue(v), IdB), "None", <<>>)>>).text

NestedWrappers(cls, c, pre, v) ==
    <<Literal(c),
      Interpolation(AlignedValue(cls, StrValue(InnerText(cls, pre, v)), IdA), "None", <<>>),
      Literal(<<"a">>)>>

NestedPrefixes == {<<>>, <<"a", NL, SP>>}

MarkerFStrings ==
    UNION {
        {OneWrapper(cls, c, v, r) : r \in Renderings}
        \cup {TwoWrappers(cls, c, v)}
        \cup {NestedWrappers(cls, c, pre, v) : pre \in NestedPrefixes}
        : cls \in {"_aligned", "_dedent"}, c \in MarkerContexts, v \in MarkerPayloads}

InitMarkers ==
    /\ op = "none"
    /\ arg = "str"
    /\ template \in MarkerFStrings
    /\ string = f_string(template).text
    /\ strip = "MISSING"
    /\ align = "MISSING"
    /\ value = <<>>
    /\ preceding_text = <<>>
    /\ segments = NoSegments
    /\ result = NoResult

\* _aligned.process_align_markers(string)
AlignedProcessAlignMarkers ==
    /\ op = "none"
    /\ arg = "str"
    /\ op' = "_aligned.process_align_markers"
    /\ result' = Returned(aligned_process_align_markers(string))
    /\ UNCHANGED inputs

\* _dedent.process_align_markers(string)
DedentProcessAlignMarkers ==
    /\ op = "none"
    /\ arg = "str"
    /\ op' = "_dedent.process_align_markers"
    /\ result' = Returned(dedent_process_align_markers(string))
    /\ UNCHANGED inputs

NextMarkers ==
    \/ AlignedProcessAlignMarkers
    \/ DedentProcessAlignMarkers
    \/ CompatDedent
    \/ DedentDedent

SpecMarkers == InitMarkers /\ [][NextMarkers]_vars

\* ---- dedent on a Template whose interpolated value is an align() wrapper

\* The format specs of the slot: a directive or none.
WrappedSpecs == {ALIGN, NOALIGN, <<>>}

InitWrapped ==
    /\ op = "none"
    /\ arg = "Template"
    /\ string = <<>>
    /\ strip \in {"MISSING", "none"}
    /\ align \in AlignArgs
    /\ value = <<>>
    /\ preceding_text = <<>>
    /\ \E cls \in {"_aligned", "_dedent"}, c \in MarkerContexts, v \in MarkerPayloads,
          spec \in WrappedSpecs :
          /\ segments = <<spec>>
          /\ template = <<Literal(c),
                          Interpolation(AlignedValue(cls, StrValue(v), IdA), "None", spec),
                          Literal(<<"a">>)>>
    /\ result = NoResult

NextWrapped == DedentTemplate \/ HandleItem

SpecWrapped == InitWrapped /\ [][NextWrapped]_vars

\* ---- dedent on a Template whose value is of one type or another

FormatValues ==
    {StrValue(<<"a", NL, "a">>), DateValue}
    \cup {AlignedValue(cls, u, IdA) :
             cls \in {"_aligned", "_dedent"}, u \in {StrValue(<<"a">>), DateValue}}

InitFormat ==
    /\ op = "none"
    /\ arg = "Template"
    /\ string = <<>>
    /\ strip = "MISSING"
    /\ align \in {"MISSING", "True"}
    /\ value = <<>>
    /\ preceding_text = <<>>
    /\ segments \in SegmentLists
    /\ \E lits \in DirectiveLiterals, v \in FormatValues, c \in {"None", "s"} :
          template = <<Literal(lits[1]),
                       Interpolation(v, c, join(<<":">>, segments)),
                       Literal(lits[2])>>
    /\ result = NoResult

NextFormat == DedentTemplate \/ HandleItem

SpecFormat == InitFormat /\ [][NextFormat]_vars

\* ---- the steps of _handle_item on a format spec that makes newlines

\* The segments: a right-justification filled with newlines, one filled
\* with spaces, the two directives and the empty segment.
FillSegments == {<<NL, ">", "3">>, <<">", "3">>, ALIGN, NOALIGN, <<>>}

InitFill ==
    /\ op = "none"
    /\ arg = "Template"
    /\ string = <<>>
    /\ strip = "none"
    /\ align \in AlignArgs
    /\ value = <<>>
    /\ preceding_text = <<>>
    /\ segments \in UNION {[1..k -> FillSegments] : k \in 1..MaxFillSegments}
    /\ \E c \in {<<>>, <<SP, SP>>, <<SP, "a">>, <<"a", NL, TAB>>},
          v \in {StrValue(<<>>), StrValue(<<"a">>), StrValue(<<NL>>),
                 StrValue(<<"a", NL, "a">>), DateValue},
          conversion \in {"None", "s", "r"} :
          template = <<Literal(c),
                       Interpolation(v, conversion, join(<<":">>, segments)),
                       Literal(<<>>)>>
    /\ result = NoResult

NextFill == DedentTemplate \/ HandleItem

SpecFill == InitFill /\ [][NextFill]_vars

\* ---- two values in one text: an f-string with two align() wrappers, and
\* ---- a Template with two interpolations

InitContext ==
    /\ op = "none"
    /\ arg \in {"str", "Template"}
    /\ strip = "none"
    /\ value = <<>>
    /\ preceding_text = <<>>
    /\ \E c1 \in {<<>>, <<SP, SP>>, <<"a", NL, SP>>},
          c2 \in {<<>>, <<SP>>, <<"a">>, <<NL, TAB>>},
          v1 \in {<<"a">>, <<SP, "a">>, <<NL>>, <<"a", NL, "a">>},
          v2 \in {<<"a">>, <<SP, "a">>, <<NL>>, <<"a", NL, "a">>} :
          \/ /\ arg = "str"
             /\ align = "MISSING"
             /\ segments = NoSegments
             /\ \E cls \in {"_aligned", "_dedent"} :
                   template = <<Literal(c1),
                                Interpolation(AlignedValue(cls, StrValue(v1), IdA),
                                              "None", <<>>),
                                Literal(c2),
                                Interpolation(AlignedValue(cls, StrValue(v2), IdB),
                                              "None", <<>>),
                                Literal(<<"a">>)>>
             /\ string = f_string(template).text
          \/ /\ arg = "Template"
             /\ align \in {"MISSING", "True"}
             /\ segments \in {<<<<>>>>, <<ALIGN>>}
             /\ template = <<Literal(c1), Interpolation(StrValue(v1), "None", segments[1]),
                             Literal(c2), Interpolation(StrValue(v2), "None", segments[1]),
                             Literal(<<"a">>)>>
             /\ string = <<>>
    /\ result = NoResult

NextContext ==
    \/ AlignedProcessAlignMarkers
    \/ DedentProcessAlignMarkers
    \/ CompatDedent
    \/ DedentDedent
    \/ DedentTemplate

SpecContext == InitContext /\ [][NextContext]_vars

\* ---- dedent on a str, with and without a wrapper, under each align argument

InitFlag ==
    /\ op = "none"
    /\ arg = "str"
    /\ strip \in StripArgs
    /\ align \in AlignArgs
    /\ value = <<>>
    /\ preceding_text = <<>>
    /\ segments = NoSegments
    /\ \/ /\ template = NoTemplate
          /\ string \in StrUpTo(Alphabet, MaxFlagLen)
       \/ /\ \E cls \in {"_aligned", "_dedent"}, c \in {<<SP>>, <<SP, SP>>},
                v \in {<<"a">>, <<"a", NL, "a">>} :
                template = OneWrapper(cls, c, v, <<"None", <<>>>>)
          /\ string = f_string(template).text
    /\ result = NoResult

SpecFlag == InitFlag /\ [][NextDedent]_vars

\* ---- strip_string and _strip_string on every string of the alphabet

InitStrip ==
    /\ op = "none"
    /\ arg = "str"
    /\ string \in StrUpTo(Alphabet, MaxStripLen)
    /\ strip \in {"smart", "all", "none"}
    /\ align = "MISSING"
    /\ value = <<>>
    /\ preceding_text = <<>>
    /\ template = NoTemplate
    /\ segments = NoSegments
    /\ result = NoResult

\* strip_string(string, strip) of _core.py
CoreStripString ==
    /\ op = "none"
    /\ arg = "str"
    /\ strip # "MISSING"
    /\ op' = "strip_string"
    /\ result' = Returned(strip_string(string, strip))
    /\ UNCHANGED inputs

\* _strip_string(string, strip) of _dedent.py
DedentStripString ==
    /\ op = "none"
    /\ arg = "str"
    /\ strip # "MISSING"
    /\ op' = "_strip_string"
    /\ result' = Returned(_strip_string(string, strip))
    /\ UNCHANGED inputs

NextStrip == CoreStripString \/ DedentStripString

SpecStrip == InitStrip /\ [][NextStrip]_vars

\* ---- dedent, with every strip mode, on texts with one aligned value

InitPipeline ==
    /\ op = "none"
    /\ arg \in {"str", "Template"}
    /\ strip \in StripArgs
    /\ value = <<>>
    /\ preceding_text = <<>>
    /\ \E c \in {<<>>, <<SP>>, <<SP, SP>>, <<NL, SP, "a", NL, SP, SP>>},
          v \in {<<"a">>, <<"a", NL, "a">>, <<"a", NL, SP, "a">>},
          tl \in {<<>>, <<NL>>, <<NL, SP, SP, "a", NL, SP>>} :
          \/ /\ arg = "str"
             /\ align = "MISSING"
             /\ segments = NoSegments
             /\ \E cls \in {"_aligned", "_dedent"} :
                   template = <<Literal(c),
                                Interpolation(AlignedValue(cls, StrValue(v), IdA),
                                              "None", <<>>),
                                Literal(tl)>>
             /\ string = f_string(template).text
          \/ /\ arg = "Template"
             /\ align \in AlignArgs
             /\ segments \in {<<<<>>>>, <<ALIGN>>}
             /\ template = <<Literal(c), Interpolation(StrValue(v), "None", segments[1]),
                             Literal(tl)>>
             /\ string = <<>>
    /\ result = NoResult

NextPipeline == CompatDedent \/ DedentDedent \/ DedentTemplate

SpecPipeline == InitPipeline /\ [][NextPipeline]_vars

\* ---- dedent_string, and dedent with strip="none", on indented texts

\* A line with a character that is no whitespace
HasContent(line) == PrefixRun(line, Whitespace) < Len(line)

\* s with prefix before each of its lines that is not blank
IndentLines(s, prefix) ==
    LET lines == split(s, NL)
    IN  join(<<NL>>, [i \in 1..Len(lines) |->
                        IF HasContent(lines[i]) THEN prefix \o lines[i] ELSE lines[i]])

InitRoundTrip ==
    /\ op = "none"
    /\ arg = "str"
    /\ value \in StrUpTo(Alphabet, MaxRoundTripLen)
    /\ preceding_text \in {Pad(SP, n) : n \in 0..MaxPrepended}
    /\ string = IndentLines(value, preceding_text)
    /\ strip = "none"
    /\ align = "MISSING"
    /\ template = NoTemplate
    /\ segments = NoSegments
    /\ result = NoResult

NextRoundTrip == CoreDedentString \/ DedentDedentString \/ CompatDedent \/ DedentDedent

SpecRoundTrip == InitRoundTrip /\ [][NextRoundTrip]_vars

\* ---- str, repr and format of an Aligned wrapper

InitRender ==
    /\ op = "none"
    /\ arg = "Aligned"
    /\ string = <<>>
    /\ strip = "MISSING"
    /\ align = "MISSING"
    /\ value = <<>>
    /\ preceding_text = <<>>
    /\ \E cls \in {"_aligned", "_dedent"},
          v \in {StrValue(u) : u \in MarkerPayloads} \cup {DateValue},
          id \in {IdA, IdB},
          spec \in {<<>>, <<">", "3">>, <<">", "4">>, ALGN} :
          /\ segments = <<spec>>
          /\ template = <<Interpolation(AlignedValue(cls, v, id), "None", spec)>>
    /\ result = NoResult

\* str(wrapper)
AlignedStr ==
    /\ op = "none"
    /\ arg = "Aligned"
    /\ op' = "Aligned.__str__"
    /\ result' = Returned(py_str(template[1].value))
    /\ UNCHANGED inputs

\* repr(wrapper)
AlignedRepr ==
    /\ op = "none"
    /\ arg = "Aligned"
    /\ op' = "Aligned.__repr__"
    /\ result' = Returned(py_repr(template[1].value))
    /\ UNCHANGED inputs

\* format(wrapper, format_spec)
AlignedFormat ==
    /\ op = "none"
    /\ arg = "Aligned"
    /\ op' = "Aligned.__format__"
    /\ result' = FromOutcome(py_format(template[1].value, template[1].format_spec))
    /\ UNCHANGED inputs

NextRender == AlignedStr \/ AlignedRepr \/ AlignedFormat

SpecRender == InitRender /\ [][NextRender]_vars

\* ---- dedent on an argument of any type

\* The types of the arguments that are neither a str nor a Template.
UnsupportedTypes == {"int", "bytes", "NoneType", "list", "Aligned"}

InitTypes ==
    /\ op = "none"
    /\ arg \in UnsupportedTypes \cup {"str"}
    /\ string \in (IF arg = "str" THEN StrUpTo(Alphabet, MaxTypedLen) ELSE {<<>>})
    /\ strip \in StripArgs
    /\ align \in AlignArgs
    /\ value = <<>>
    /\ preceding_text = <<>>
    /\ template = NoTemplate
    /\ segments = NoSegments
    /\ result = NoResult

SpecTypes == InitTypes /\ [][NextDedent]_vars

\* ---- every call on every input

Init ==
    InitReduce \/ InitAlign \/ InitDedent \/ InitTemplate \/ InitMarkers \/ InitWrapped
    \/ InitFormat \/ InitStrip \/ InitPipeline \/ InitRoundTrip \/ InitRender \/ InitFill \/ InitContext
    \/ InitFlag
    \/ InitTypes

Next ==
    \/ CoreDedentString
    \/ DedentDedentString
    \/ CoreAlignValue
    \/ DedentAlignValue
    \/ CompatDedent
    \/ DedentDedent
    \/ DedentTemplate
    \/ ParseFormatSpec
    \/ HandleItem
    \/ AlignedProcessAlignMarkers
    \/ DedentProcessAlignMarkers
    \/ CoreStripString
    \/ DedentStripString
    \/ AlignedStr
    \/ AlignedRepr
    \/ AlignedFormat

Spec == Init /\ [][Next]_vars

-----------------------------------------------------------------------------
(* The indentation reducer.                                                *)

IsReduceCall == op \in {"dedent_string", "_dedent_string"}

LeadingWs(line) == PrefixRun(line, Whitespace)

\* The lines with at least one non-whitespace character, and among them the
\* lines that start with at least one whitespace character.
ContentLines(lines) == {i \in 1..Len(lines) : LeadingWs(lines[i]) < Len(lines[i])}
IndentedContentLines(lines) == {i \in ContentLines(lines) : LeadingWs(lines[i]) >= 1}

MinLeadingWs(lines, among) == Min({LeadingWs(lines[i]) : i \in among})

HasWsPrefix(line, n) == Len(line) >= n /\ \A k \in 1..n : line[k] \in Whitespace

C2_PrefixRemovedOrLineKept ==
    IsReduceCall =>
        LET lines == split(string, NL)
            out   == split(result.text, NL)
            Q     == IndentedContentLines(lines)
        IN  Q # {} =>
                LET n == MinLeadingWs(lines, Q)
                IN  /\ Len(out) = Len(lines)
                    /\ \A i \in 1..Len(lines) :
                          out[i] = IF HasWsPrefix(lines[i], n)
                                   THEN SubSeq(lines[i], n + 1, Len(lines[i]))
                                   ELSE lines[i]

\* A common indent of two made of a tab and a space, and a whitespace-only
\* line shorter than it.
C2_Witness ==
    /\ IsReduceCall
    /\ LET lines == split(string, NL)
           Q     == IndentedContentLines(lines)
       IN  /\ Q # {}
           /\ MinLeadingWs(lines, Q) = 2
           /\ \E i \in Q : TAB \in {lines[i][k] : k \in 1..2} /\ SP \in {lines[i][k] : k \in 1..2}
           /\ \E i \in 1..Len(lines) : Len(lines[i]) = 1 /\ isspace(lines[i])
    /\ result.text # string

-----------------------------------------------------------------------------
(* The aligner.                                                            *)

IsAlignValueCall == op \in {"align_value", "_align_value"}

\* The leading whitespace run of the text after the last newline of p.
IndentToken(p) ==
    LET pieces == split(p, NL)
        last   == pieces[Len(pieces)]
    IN  SubSeq(last, 1, LeadingWs(last))

\* C6: align_value returns value with every newline, a trailing one
\* included, replaced by newline + W, W being the whole leading whitespace
\* run of the text after the last newline of preceding_text; value is
\* returned unchanged when W is empty or value holds no newline.
C6_EveryNewlineGetsIndentToken ==
    IsAlignValueCall =>
        LET W == IndentToken(preceding_text)
        IN  /\ result.text = join(<<NL>> \o W, split(value, NL))
            /\ (W = <<>> \/ \A i \in 1..Len(value) : value[i] # NL) => result.text = value

\* A mixed indent token after a newline of the preceding text, and a value
\* that ends with a newline.
C6_Witness ==
    /\ IsAlignValueCall
    /\ preceding_text = <<NL, TAB, SP>>
    /\ Len(value) = 3 /\ value[3] = NL /\ value[1] = NL
    /\ result.text = <<NL, TAB, SP, value[2], NL, TAB, SP>>

-----------------------------------------------------------------------------
(* dedent on plain strings.                                                *)

IsStringDedentCall == op \in {"_compat.dedent", "_dedent.dedent"} /\ arg = "str"
DefaultOptions == strip = "MISSING" /\ align = "MISSING"

\* The leading-whitespace lengths of the content lines of s, in order, and
\* the positions of these lines in s.
ContentIndexSeq(lines) ==
    LET keep(i) == LeadingWs(lines[i]) < Len(lines[i])
        F[n \in 0..Len(lines)] ==
            IF n = 0 THEN <<>> ELSE IF keep(n) THEN Append(F[n - 1], n) ELSE F[n - 1]
    IN  F[Len(lines)]

ContentIndents(s) ==
    LET lines == split(s, NL)
        idx   == ContentIndexSeq(lines)
    IN  [k \in 1..Len(idx) |-> LeadingWs(lines[idx[k]])]

-----------------------------------------------------------------------------
(* Scenarios B and C.                                                      *)

ListTemplate ==
    <<Literal(ListHead), Interpolation(StrValue(ListItems), "None", <<>>), Literal(ListTail)>>

ListScenarioCall(flag) ==
    /\ op = "_dedent.dedent"
    /\ arg = "Template"
    /\ template = ListTemplate
    /\ align = flag
    /\ strip = "MISSING"

\* "List:\n    - a\n    - b\n---"
ListBothIndented ==
    <<"L", "i", "s", "t", ":", NL, SP, SP, SP, SP, "-", SP, "a", NL,
      SP, SP, SP, SP, "-", SP, "b", NL, "-", "-", "-">>

\* "List:\n    - a\n- b\n---"
ListFirstIndented ==
    <<"L", "i", "s", "t", ":", NL, SP, SP, SP, SP, "-", SP, "a", NL,
      "-", SP, "b", NL, "-", "-", "-">>

\* "List:\n- a\n- b\n---"
ListFlat ==
    <<"L", "i", "s", "t", ":", NL, "-", SP, "a", NL, "-", SP, "b", NL, "-", "-", "-">>

-----------------------------------------------------------------------------
(* Directives.                                                             *)

\* The directive that decides among the segments the spec was joined from:
\* the last one, "none" when there is none.
Directives(segs) == {i \in 1..Len(segs) : segs[i] \in {ALIGN, NOALIGN}}
EffectiveDirective(segs) ==
    IF Directives(segs) = {} THEN "none"
    ELSE LET last == CHOOSE i \in Directives(segs) : \A j \in Directives(segs) : j <= i
         IN  IF segs[last] = ALIGN THEN "align" ELSE "noalign"

\* The segments that are no directive, in their order.
Residual(segs) ==
    LET F[n \in 0..Len(segs)] ==
            IF n = 0 THEN <<>>
            ELSE IF segs[n] \in {ALIGN, NOALIGN} THEN F[n - 1] ELSE Append(F[n - 1], segs[n])
    IN  F[Len(segs)]

\* value with every newline followed by the indent token of p
Indented(v, p) == join(<<NL>> \o IndentToken(p), split(v, NL))

\* C7: an interpolation is given to the aligner if and only if its format
\* spec carries the directive align, or carries no directive and the call's
\* align flag is true: noalign suppresses alignment under align=True, and
\* align forces it under align=False and with align omitted.  (Of several
\* directives the last is the one the spec carries.)
C7_DirectiveOverridesFlag ==
    (op = "_handle_item" /\ result.kind = "str") =>
        LET directive == EffectiveDirective(segments)
            decision  == directive = "align" \/ (directive = "none" /\ align = "True")
            plain     == _handle_item(template[2], <<>>, FALSE).text
        IN  /\ result.aligned = decision
            /\ directive = "noalign" => result.text = plain
            /\ directive = "align" => result.text = Indented(plain, template[1].s)

\* noalign under align=True left the value as it was, where aligning would
\* have changed it.
C7_Witness ==
    /\ op = "_handle_item"
    /\ result.kind = "str"
    /\ align = "True"
    /\ segments = <<NOALIGN>>
    /\ ~result.aligned
    /\ result.text # Indented(result.text, template[1].s)

\* C8: the spec is split on ':', the last segment that is exactly align or
\* noalign decides the override (None when there is none), and the residual
\* spec is the other segments, in their order, joined with ':'; a spec with
\* no directive segment is returned unchanged.
C8_LastDirectiveAndResidual ==
    op = "_parse_format_spec" =>
        /\ result.align_override =
              (CASE EffectiveDirective(segments) = "align"   -> "True"
                 [] EffectiveDirective(segments) = "noalign" -> "False"
                 [] OTHER                                     -> "None")
        /\ result.text = join(<<":">>, Residual(segments))
        /\ Directives(segments) = {} => result.text = template[2].format_spec

\* Two different directives around a segment that is none: the last decides
\* and the other segment is all that is left.
C8_Witness ==
    /\ op = "_parse_format_spec"
    /\ segments = <<ALIGN, <<">", "4">>, NOALIGN>>
    /\ result.align_override = "False"
    /\ result.text = <<">", "4">>

-----------------------------------------------------------------------------
(* Markers.                                                                *)

Contains(s, pat) == \E q \in 1..Len(s) : HasAt(s, q, pat)
HasChar(s, c) == \E q \in 1..Len(s) : s[q] = c

\* The f-string holds renderings of wrappers made by the package's align,
\* _aligned.align, none inside the value of another.
PackageWrappersNotNested ==
    \A i \in 1..Len(template) :
        template[i].kind = "Interpolation" =>
            /\ template[i].value.type = "Aligned"
            /\ template[i].value.cls = "_aligned"
            /\ template[i].value._value.type = "str"
            /\ ~HasChar(template[i].value._value.s, NUL)

\* C9: with dedent taken from _dedent (Python 3.14 and later) or from
\* _compat (before), and align from _aligned, dedent of a string that holds
\* renderings of align(v) wrappers, none nested, returns a string with no
\* NUL and no "DEDENT_ALIGN" in it.
C9_AsStated ==
    (IsStringDedentCall /\ Len(template) > 0 /\ PackageWrappersNotNested) =>
        /\ result.kind = "str"
        /\ ~HasChar(result.text, NUL)
        /\ ~Contains(result.text, DEDENT_ALIGN)

\* The scanner of the module a wrapper class lives in.
ScannerOf(cls) ==
    IF cls = "_aligned" THEN "_aligned.process_align_markers"
    ELSE "_dedent.process_align_markers"

IsNestedShape ==
    /\ Len(template) = 3
    /\ template[2].kind = "Interpolation"
    /\ template[2].value.type = "Aligned"
    /\ template[2].value._value.type = "str"
    /\ HasChar(template[2].value._value.s, NUL)

\* C10: when the payload of an outer wrapper holds an inner wrapper of
\* another id, the inner payload is aligned first (within the outer
\* payload), the outer alignment is applied to the text so aligned, and no
\* delimiter of either wrapper is left; for the scanner of _aligned.py and
\* for the scanner of _dedent.py, each on the wrappers of its module.
C10_AsStated ==
    \A cls \in {"_aligned", "_dedent"} :
        (op = ScannerOf(cls) /\ IsNestedShape /\ template[2].value.cls = cls) =>
            \A pre \in NestedPrefixes, v \in MarkerPayloads :
                template = NestedWrappers(cls, template[1].s, pre, v) =>
                    /\ result.text =
                          template[1].s
                          \o Indented(pre \o Indented(v, pre), template[1].s)
                          \o <<"a">>
                    /\ ~HasChar(result.text, NUL)
                    /\ ~Contains(result.text, DEDENT_ALIGN)

-----------------------------------------------------------------------------
(* The two paths to an aligned value.                                      *)

\* No wrapper of the f-string holds another, and no value holds a NUL.
WrappersNotNested ==
    \A i \in 1..Len(template) :
        template[i].kind = "Interpolation" =>
            /\ template[i].value.type = "Aligned"
            /\ template[i].value._value.type = "str"
            /\ ~HasChar(template[i].value._value.s, NUL)

\* The Template with the literals and values of an f-string, the slots that
\* the f-string wraps in align() carrying the directive align.
WithDirective(format_spec) ==
    IF Len(format_spec) = 0 THEN ALIGN ELSE format_spec \o <<":">> \o ALIGN

AsTemplate(items) ==
    [i \in 1..Len(items) |->
        IF items[i].kind = "Interpolation" /\ items[i].value.type = "Aligned"
        THEN Interpolation(items[i].value._value, items[i].conversion,
                           WithDirective(items[i].format_spec))
        ELSE items[i]]

\* C11: for literals and NUL-free string values, wrappers not nested, the
\* scanner of _dedent.py applied to the f-string whose slots are written as
\* align(value) returns the text rendered from the Template whose same slots
\* carry the directive align, before any dedenting or stripping.
C11_AsStated ==
    (op = "_dedent.process_align_markers" /\ Len(template) > 0 /\ WrappersNotNested) =>
        result.text = render_template(AsTemplate(template), <<>>, FALSE).text

\* The slot of the template is given to the aligner.
SlotIsAligned ==
    \/ EffectiveDirective(segments) = "align"
    \/ EffectiveDirective(segments) = "none" /\ align = "True"

\* What dedent makes of a rendered text once its markers are dealt with.
Finish(text) == _strip_string(_dedent_string(text), strip_or_default(strip))

\* C12: in one call of _dedent.dedent on a Template whose slot holds an
\* Aligned wrapper and is to be aligned, the newlines of the slot's value
\* receive the indent token at most once: the result is what dedenting and
\* stripping make of the text with the value as it is or indented once, its
\* delimiters removed or left in place.
C12_AsStated ==
    (/\ op = "_dedent.dedent"
     /\ arg = "Template"
     /\ Len(template) = 3
     /\ template[2].kind = "Interpolation"
     /\ template[2].value.type = "Aligned"
     /\ SlotIsAligned) =>
        LET c    == template[1].s
            w    == template[2].value
            v    == w._value.s
            once == Indented(v, c)
            tl   == template[3].s
        IN  result.text \in {Finish(c \o v \o tl), Finish(c \o once \o tl),
                             Finish(c \o _wrap(w, v) \o tl),
                             Finish(c \o _wrap(w, once) \o tl)}

-----------------------------------------------------------------------------
(* Scenario E.                                                             *)

\* The object that format() is called on: str for a conversion, else the
\* value. Its formatter is str's when it is a str or a wrapper of one.
RECURSIVE Wrapped(_)
Wrapped(v) == IF v.type = "Aligned" THEN Wrapped(v._value) ELSE v

FormatsAsStr(item) == item.conversion # "None" \/ Wrapped(item.value).type = "str"

MisspelledCall ==
    /\ op = "_dedent.dedent"
    /\ arg = "Template"
    /\ Len(template) = 3
    /\ template[2].kind = "Interpolation"
    /\ template[2].format_spec = ALGN

-----------------------------------------------------------------------------
(* Arguments of other types.                                               *)

IsDedentCall == op \in {"_compat.dedent", "_dedent.dedent"}

\* C14: for an argument that is neither a str nor a Template (not a str, in
\* _compat.dedent) dedent raises a TypeError whose message names the type of
\* the argument; the message is that of dedent's own check, so nothing has
\* been rendered, scanned, reduced or stripped when it is raised.  A str is
\* never refused.
C14_TypeErrorBeforeProcessing ==
    IsDedentCall =>
        /\ arg \in UnsupportedTypes =>
              /\ result.kind = "raise"
              /\ result.error = "TypeError"
              /\ result.text = <<>>
              /\ result.message =
                    <<IF op = "_compat.dedent" THEN "expected str, not "
                      ELSE "expected str or Template, not ">>
                    \o <<"'", arg, "'">>
        /\ arg = "str" => result.kind = "str"

C14_Witness ==
    /\ op = "_compat.dedent"
    /\ arg = "int"
    /\ result.kind = "raise"
    /\ result.error = "TypeError"
    /\ result.message = <<"expected str, not ", "'", "int", "'">>

-----------------------------------------------------------------------------
(* Stripping.                                                              *)

IsStripCall == op \in {"strip_string", "_strip_string"}

Blank == Whitespace \ {NL}

\* The length of the longest suffix of s made of characters of class.
SuffixRun(s, class) ==
    LET stop == {i \in 1..Len(s) : s[i] \notin class}
    IN  IF stop = {} THEN Len(s) ELSE Len(s) - (CHOOSE i \in stop : \A j \in stop : j <= i)

Newlines(s) == Cardinality({i \in 1..Len(s) : s[i] = NL})

\* C15: in the mode smart, strip_string takes from the start of s one run of
\* non-newline whitespace and at most one newline after it, and from the end
\* of what is left one run of non-newline whitespace and at most one newline
\* before it; all between is returned as it was, so at most one newline goes
\* at each end and every further blank line stays.
C15_SmartStripsOneLineAtEachEnd ==
    (IsStripCall /\ strip = "smart") =>
        LET lead   == PrefixRun(string, Blank)
            front  == lead + (IF lead < Len(string) /\ string[lead + 1] = NL THEN 1 ELSE 0)
            left   == SubSeq(string, front + 1, Len(string))
            trail  == SuffixRun(left, Blank)
            back   == trail + (IF trail < Len(left) /\ left[Len(left) - trail] = NL
                               THEN 1 ELSE 0)
        IN  /\ result.text = SubSeq(left, 1, Len(left) - back)
            /\ Newlines(string) - Newlines(result.text) <= 2
            /\ Newlines(string) >= 3 => Newlines(result.text) >= 1

\* Two blank lines at each end: one of each pair stays.
C15_Witness ==
    /\ IsStripCall /\ strip = "smart"
    /\ string = <<NL, NL, "a", NL, NL>>
    /\ result.text = <<NL, "a", NL>>

\* C16: in the mode all, strip_string returns s without its leading and its
\* trailing whitespace and with all between unchanged, and stripping the
\* result once more returns the result.
C16_AllStripsBothEndsIdempotent ==
    (IsStripCall /\ strip = "all") =>
        LET lead  == PrefixRun(string, Whitespace)
            trail == IF lead = Len(string) THEN 0 ELSE SuffixRun(string, Whitespace)
        IN  /\ result.text = SubSeq(string, lead + 1, Len(string) - trail)
            /\ Len(result.text) > 0 =>
                  /\ result.text[1] \notin Whitespace
                  /\ result.text[Len(result.text)] \notin Whitespace
            /\ strip_string(result.text, "all") = result.text
            /\ _strip_string(result.text, "all") = result.text

C16_Witness ==
    /\ IsStripCall /\ strip = "all"
    /\ string = <<NL, "a", SP, "a", TAB>>
    /\ result.text = <<"a", SP, "a">>

-----------------------------------------------------------------------------
(* Scenario D.                                                             *)

\* C17 as stated: with strip="none" the leading and the trailing whitespace
\* run of the result of dedent are those of the text.
C17_AsStated ==
    (IsStringDedentCall /\ strip = "none") =>
        LET lead  == PrefixRun(string, Whitespace)
            trail == SuffixRun(string, Whitespace)
        IN  /\ PrefixRun(result.text, Whitespace) = lead
            /\ SuffixRun(result.text, Whitespace) = trail
            /\ TakeFirst(result.text, lead) = TakeFirst(string, lead)
            /\ DropFirst(result.text, Len(result.text) - trail)
                  = DropFirst(string, Len(string) - trail)

\* C17, amended: with strip="none" nothing is stripped at the ends, and the
\* common indent is still removed: the result has the lines of the text,
\* each as it was or without its first n characters, all whitespace, for
\* one n.  So every leading and trailing newline of the text is kept, and
\* the spaces and tabs of the leading and trailing whitespace are reduced
\* as any indentation is.
C17_NoneKeepsLinesNotIndent ==
    (IsStringDedentCall /\ strip = "none") =>
        LET before == split(string, NL)
            after  == split(result.text, NL)
        IN  /\ Len(after) = Len(before)
            /\ PrefixRun(result.text, {NL}) >= PrefixRun(string, {NL})
            /\ SuffixRun(result.text, {NL}) >= SuffixRun(string, {NL})
            /\ \E n \in 0..Len(string) :
                  \A i \in 1..Len(before) :
                     \/ after[i] = before[i]
                     \/ /\ HasWsPrefix(before[i], n)
                        /\ after[i] = DropFirst(before[i], n)

\* A newline at each end is kept while the indent between them goes.
C17_Witness ==
    /\ IsStringDedentCall /\ strip = "none"
    /\ string = <<NL, SP, "a", NL>>
    /\ result.text = <<NL, "a", NL>>

-----------------------------------------------------------------------------
(* The order of the pipeline.                                              *)

\* The text that dedent has before it scans for markers: the string, or the
\* rendering of the Template.
Rendered ==
    IF arg = "Template"
    THEN render_template(template, <<>>, align_or_default(align)).text
    ELSE string

\* C18: for a str or a Template and every strip mode, the result of dedent
\* is the strip of the reduction of the marker scan of the rendered text,
\* each step by the functions of dedent's module: values are aligned before
\* the common indent is measured, and stripping is last.
C18_PipelineOrder ==
    (IsDedentCall /\ arg \in {"str", "Template"} /\ result.kind = "str") =>
        LET mode == strip_or_default(strip)
        IN  result.text =
               IF op = "_compat.dedent"
               THEN strip_string(dedent_string(aligned_process_align_markers(Rendered)), mode)
               ELSE _strip_string(_dedent_string(dedent_process_align_markers(Rendered)),
                                  mode)

\* The indentation that alignment gave the second line of the value is
\* measured and removed with that of the first, and stripping after the
\* reduction leaves the indentation that stripping before it would lose.
C18_Witness ==
    /\ op = "_compat.dedent"
    /\ arg = "str"
    /\ strip = "MISSING"
    /\ template[1].s = <<SP>>
    /\ template[2].value.cls = "_aligned"
    /\ template[2].value._value.s = <<"a", NL, "a">>
    /\ template[3].s = <<NL, SP, SP, "a", NL, SP>>
    /\ result.text = <<"a", NL, "a", NL, SP, "a">>

-----------------------------------------------------------------------------
(* The round trip.                                                         *)

IsRoundTripCall == IsReduceCall \/ IsStringDedentCall

RoundTripLines == split(value, NL)
RoundTripContent == {i \in 1..Len(RoundTripLines) : HasContent(RoundTripLines[i])}

\* Some line with content has no indentation.
SomeContentUnindented ==
    \E i \in RoundTripContent : PrefixRun(RoundTripLines[i], Whitespace) = 0

\* No line with content has indentation.
NoContentIndented ==
    \A i \in RoundTripContent : PrefixRun(RoundTripLines[i], Whitespace) = 0

\* The lines without content are empty.
BlankLinesEmpty ==
    \A i \in 1..Len(RoundTripLines) : i \notin RoundTripContent => Len(RoundTripLines[i]) = 0

\* C19 as stated: for every string s and every N >= 0, s with N spaces
\* before each line that is not blank is dedented to s.
C19_AsStated == IsRoundTripCall => result.text = value

\* C19, amended: s with N spaces before each line that is not blank is
\* dedented to s when s has no indentation of its own to lose: its blank
\* lines are empty and, for N >= 1, some line with content has no
\* indentation or there is no line with content, for N = 0, no line with
\* content has indentation.
C19_RoundTripOfUnindentedText ==
    (/\ IsRoundTripCall
     /\ BlankLinesEmpty
     /\ IF Len(preceding_text) >= 1
        THEN SomeContentUnindented \/ RoundTripContent = {}
        ELSE NoContentIndented) =>
        result.text = value

\* Two spaces before the lines "a" and " a": both come back, the second
\* with its own space.
C19_Witness ==
    /\ IsRoundTripCall
    /\ value = <<"a", NL, SP, "a">>
    /\ preceding_text = <<SP, SP>>
    /\ string = <<SP, SP, "a", NL, SP, SP, SP, "a">>
    /\ result.text = value

-----------------------------------------------------------------------------
(* The renderings of a wrapper.                                            *)

\* C20: a wrapper of either class renders under str, repr and format as
\* D + rendered value + D, the opening and the closing delimiter being the
\* one string D = NUL + "DEDENT_ALIGN" + ":" + id + NUL, and the rendered
\* value being str, repr or format of the wrapped value.
C20_AsStated ==
    (op \in {"Aligned.__str__", "Aligned.__repr__", "Aligned.__format__"}
     /\ result.kind = "str") =>
        LET w    == template[1].value
            D    == <<NUL>> \o DEDENT_ALIGN \o <<":">> \o w._ID \o <<NUL>>
            body == CASE op = "Aligned.__str__"  -> py_str(w._value)
                      [] op = "Aligned.__repr__" -> py_repr(w._value)
                      [] OTHER -> py_format(w._value, template[1].format_spec).text
        IN  result.text = D \o body \o D

-----------------------------------------------------------------------------
(* Scenario A.                                                             *)

\* "first\n    second"
ScenarioAResult ==
    <<"f", "i", "r", "s", "t", NL, SP, SP, SP, SP, "s", "e", "c", "o", "n", "d">>

\* C21: dedent("\n    first\n        second\n    ") with default options
\* returns exactly "first\n    second", from _compat and from _dedent.
C21_ScenarioA ==
    (IsStringDedentCall /\ DefaultOptions /\ string = ScenarioA) =>
        result = Returned(ScenarioAResult)

C21_Witness ==
    /\ op = "_compat.dedent"
    /\ arg = "str"
    /\ DefaultOptions
    /\ string = ScenarioA
    /\ result.text = ScenarioAResult

-----------------------------------------------------------------------------
(* The steps of an interpolation.                                          *)

\* The text of the interpolation after conversion, formatting with the
\* residual spec (skipped when it is empty) and coercion to str; "raise"
\* when the formatter rejects the spec.
FormattedText ==
    LET converted == convert(template[2].value, template[2].conversion)
        residual  == join(<<":">>, Residual(segments))
    IN  IF Len(residual) = 0 THEN Ok(py_str(converted))
        ELSE py_format(converted, residual)

\* C22: an interpolation is converted, then formatted with the residual
\* spec (not at all when that is empty), then coerced to str, then
\* aligned: when the slot is aligned the result is the formatted text with
\* every newline, those that the format spec made included, followed by the
\* indent token of the text before the slot; otherwise it is the formatted
\* text.  An exception of the formatter leaves _handle_item.
C22_ConvertFormatThenAlign ==
    op = "_handle_item" =>
        IF ~FormattedText.ok THEN result.kind = "raise"
        ELSE /\ result.kind = "str"
             /\ result.text = IF result.aligned
                              THEN Indented(FormattedText.text, template[1].s)
                              ELSE FormattedText.text
             /\ result.aligned =>
                   \A i \in 1..Len(result.text) :
                      result.text[i] = NL =>
                         HasAt(result.text, i + 1, IndentToken(template[1].s))

\* "a" right-justified to three with newlines, after two spaces: both
\* newlines of the fill are indented.
C22_Witness ==
    /\ op = "_handle_item"
    /\ template[1].s = <<SP, SP>>
    /\ template[2].value = StrValue(<<"a">>)
    /\ template[2].conversion = "None"
    /\ segments = <<<<NL, ">", "3">>, ALIGN>>
    /\ result.aligned
    /\ result.text = <<NL, SP, SP, NL, SP, SP, "a">>

-----------------------------------------------------------------------------
(* The context of the second of two values.                                *)

\* The text of two values put between three literals, the second aligned
\* (when aligning) to the context it is given.
TwoValues(aligning, context2(_)) ==
    LET c1   == template[1].s
        c2   == template[3].s
        raw1 == IF arg = "str" THEN template[2].value._value.s ELSE template[2].value.s
        raw2 == IF arg = "str" THEN template[4].value._value.s ELSE template[4].value.s
        out1 == c1 \o (IF aligning THEN Indented(raw1, c1) ELSE raw1)
        ctx  == context2(out1) \o c2
    IN  out1 \o c2 \o (IF aligning THEN Indented(raw2, ctx) ELSE raw2) \o template[5].s

\* The second value in the context of the output assembled so far.
AssembledSoFar(out1) == out1

\* The wrappers are those of the package's align, and a Template's values
\* are aligned by the flag or the directive.
PackageAlign == arg = "str" => template[2].value.cls = "_aligned"
Aligning == arg = "str" \/ align = "True" \/ segments = <<ALIGN>>

\* C23: in the marker path and in the template path the context of the
\* second value is the output assembled so far, the first literal and the
\* aligned first value and the second literal, so each value is indented by
\* the leading whitespace of the line of the output it is inserted in.
C23_AsStated ==
    (op # "none" /\ PackageAlign) =>
        LET assembled == TwoValues(Aligning, AssembledSoFar)
        IN  result.text =
               CASE op = "_compat.dedent" -> dedent_string(assembled)
                 [] op = "_dedent.dedent" -> _dedent_string(assembled)
                 [] OTHER                 -> assembled

-----------------------------------------------------------------------------
(* Nothing to reduce.                                                      *)

\* C24: when no line of the string qualifies for the indent computation
\* (none starts with whitespace and holds a non-whitespace character),
\* dedent_string returns the string as it is, character for character: so
\* for the empty string and for every string of whitespace only, whose
\* whitespace-only lines are not shortened.
C24_UnchangedWithoutQualifyingLine ==
    (IsReduceCall /\ IndentedContentLines(split(string, NL)) = {}) =>
        result = Returned(string)

\* Two whitespace-only lines, each as long as it was.
C24_Witness ==
    /\ IsReduceCall
    /\ string = <<SP, SP, NL, TAB>>
    /\ result.text = <<SP, SP, NL, TAB>>

-----------------------------------------------------------------------------
(* The align argument and a str.                                           *)

\* What the call of the state returns when its align argument is a.
WithAlign(a) ==
    IF op = "_compat.dedent" THEN compat_dedent_of(arg, string, a, strip)
    ELSE dedent_dedent_of(arg, string, template, a, strip)

\* C25: for a str the result of dedent is the same with align=True, with
\* align=False and with align omitted, from _dedent and from _compat and
\* under every strip mode; a str with no marker in it is reduced and
\* stripped and nothing else, whatever the align argument.
C25_AlignIgnoredForStr ==
    IsStringDedentCall =>
        /\ \A a \in AlignArgs : result = WithAlign(a)
        /\ ~HasChar(string, NUL) =>
              result.text =
                 IF op = "_compat.dedent"
                 THEN strip_string(dedent_string(string), strip_or_default(strip))
                 ELSE _strip_string(_dedent_string(string), strip_or_default(strip))

\* align=True on a text that aligning would have changed: it is returned as
\* the reducer left it.
C25_Witness ==
    /\ op = "_dedent.dedent"
    /\ arg = "str"
    /\ align = "True"
    /\ strip = "none"
    /\ string = <<"a", NL, SP>>
    /\ result.text = <<"a", NL, SP>>
    /\ _align_value(string, string) # string

-----------------------------------------------------------------------------
(* The two implementations.                                                *)

\* What the other implementation of dedent returns on the arguments of the
\* call of the state.
OtherImplementation ==
    IF op = "_compat.dedent"
    THEN dedent_dedent_of(arg, string, template, align, strip)
    ELSE compat_dedent_of(arg, string, align, strip)

\* C26: on a str with no NUL in it and with every strip mode, _compat.dedent
\* (on _core and _aligned) and _dedent.dedent return the same string.
C26_ImplementationsAgree ==
    (IsStringDedentCall /\ ~HasChar(string, NUL)) => result = OtherImplementation

\* A blank first line, an indented line and a blank last line: both
\* implementations return the line alone.
C26_Witness ==
    /\ op = "_dedent.dedent"
    /\ arg = "str"
    /\ strip = "smart"
    /\ string = <<NL, SP, "a", NL>>
    /\ result.text = <<"a">>
    /\ OtherImplementation.text = <<"a">>

-----------------------------------------------------------------------------
(* What the reducer may remove.                                            *)

\* The characters of s that are no whitespace, in their order.
RECURSIVE NonWhitespace(_)
NonWhitespace(s) ==
    IF Len(s) = 0 THEN <<>>
    ELSE (IF s[1] \in Whitespace THEN <<>> ELSE <<s[1]>>) \o NonWhitespace(Tail(s))

\* C27: dedent_string returns as many lines as it was given, and each line
\* of the result is the line of the string at its position without some
\* first characters, all of them whitespace; the characters that are no
\* whitespace are those of the string, in their order.
C27_OnlyLeadingWhitespaceRemoved ==
    IsReduceCall =>
        LET lines == split(string, NL)
            out   == split(result.text, NL)
        IN  /\ Len(out) = Len(lines)
            /\ \A i \in 1..Len(lines) :
                  \E n \in 0..Len(lines[i]) :
                     /\ HasWsPrefix(lines[i], n)
                     /\ out[i] = SubSeq(lines[i], n + 1, Len(lines[i]))
            /\ NonWhitespace(result.text) = NonWhitespace(string)

\* An unindented line shorter than the common indent of the others: it is
\* returned whole.
C27_Witness ==
    /\ IsReduceCall
    /\ string = <<"a", NL, SP, SP, "a">>
    /\ result.text = <<"a", NL, "a">>

=============================================================================
